---- MODULE Spec2Model ----
(***************************************************************************)
(* Control flow of the tap-detection pipeline:                             *)
(*   src/modello_py/train_model.py    (dataset, training loop, save)       *)
(*   src/modello_py/evaluate_model.py (import of train_model, evaluation)  *)
(*                                                                         *)
(* One behaviour is one run of one Python process, either                  *)
(* `python train_model.py` or `python evaluate_model.py`.  The statements  *)
(* of the two modules' top levels are the actions; pc is the position of   *)
(* the interpreter.  The neural network is opaque: a parameter update is   *)
(* a counter increment, a prediction is a free choice of a class index.    *)
(***************************************************************************)
EXTENDS Integers, Sequences, FiniteSets, TLC

(***************************************************************************)
(* Program constants kept at their value.                                  *)
(***************************************************************************)
WINDOW_SIZE == 25
NUM_FEATURES == 3
NUM_CLASSES == 2

(***************************************************************************)
(* Program constants scaled down for model checking (the source has        *)
(* BATCH_SIZE = 16 and NUM_EPOCHS = 500 in train_model.py, BATCH_SIZE = 8  *)
(* in evaluate_model.py), and the bounds on the directories' contents.     *)
(***************************************************************************)
BATCH_SIZE == 2
NUM_EPOCHS == 2
EVAL_BATCH_SIZE == 2
\* Files per class directory under dataset/train when train_model.py is run.
MaxSfondo == 2
MaxTap == 3
\* Files per class directory under dataset/test.
MaxTestSfondo == 1
MaxTestTap == 3
\* Stands for CPython's recursion limit (1000): the depth of nested
\* __getitem__ calls at which RecursionError is raised.  Any value above the
\* number of files of a dataset gives the same outcomes.
RecursionLimit == 12

(***************************************************************************)
(* The file system.  A sample file is either not valid JSON or a JSON      *)
(* array of per-frame records, modelled by its number of records.  Only    *)
(* *.json files are listed, so other files are left out.                   *)
(***************************************************************************)
NotJson == [valid |-> FALSE]
JsonArray(n) == [valid |-> TRUE, frames |-> n]
FrameCounts == {WINDOW_SIZE - 1, WINDOW_SIZE}
Contents == {NotJson} \cup {JsonArray(n) : n \in FrameCounts}

SeqsUpTo(S, n) == UNION {[1..k -> S] : k \in 0..n}

\* A dataset root: one sequence of file contents per class directory.
Roots(S, maxSfondo, maxTap) ==
    {[sfondo |-> s, tap |-> t] : s \in SeqsUpTo(S, maxSfondo), t \in SeqsUpTo(S, maxTap)}

\* Training directories explored under evaluate_model.py: well-formed files
\* only, at most one batch of them, in every split over the two classes.
ImportRoots ==
    {r \in Roots({JsonArray(WINDOW_SIZE)}, BATCH_SIZE, BATCH_SIZE) :
        Len(r.sfondo) + Len(r.tap) <= BATCH_SIZE}

EmptyRoot == [sfondo |-> <<>>, tap |-> <<>>]

VARIABLES
    program,         \* "train" | "evaluate": the script the process runs
    pc,              \* position in the scripts' top-level code
    outcome,         \* "running" | "exited" | "raised" | "finished"
    error,           \* name of the unhandled exception, or "none"
    dirs,            \* [train, test]: the two dataset roots on disk
    weights_file,    \* tap_model_weights.pth: [kind: "absent" | "old" | "trained", steps]
    mlmodel_file,    \* TapDetector.mlmodel written
    train_dataset,   \* train_model.train_dataset, or Unset
    train_model,     \* train_model.model: Unset | [steps, mode]
    epoch,           \* completed iterations of the epoch loop
    train_iter,      \* indices the train_loader iterator has not yet drawn
    train_batch,     \* number of samples in the batch last produced by train_loader
    batch_no,        \* batches produced in the running epoch
    req_count,       \* index -> times requested from train_dataset in this epoch
    loss,            \* the variable loss: Unset | [epoch, batch]
    log,             \* the per-epoch lines printed
    updates,         \* optimizer.step() calls made in this process
    saves,           \* torch.save calls made in this process
    test_dataset,    \* evaluate_model.test_dataset, or Unset
    eval_model,      \* evaluate_model.model: Unset | [params, mode]
    test_iter,       \* indices the test_loader iterator has not yet drawn
    test_batch,      \* the batch last produced by test_loader: index -> item
    test_req,        \* indices requested from test_dataset, in order
    all_labels,
    all_predictions,
    metrics          \* Unset | [accuracy, cm]

vars == <<program, pc, outcome, error, dirs, weights_file, mlmodel_file,
          train_dataset, train_model, epoch, train_iter, train_batch, batch_no,
          req_count, loss, log, updates, saves, test_dataset, eval_model,
          test_iter, test_batch, test_req, all_labels, all_predictions, metrics>>

Unset == [unset |-> TRUE]

(***************************************************************************)
(* HandGestureDataset                                                      *)
(***************************************************************************)
\* label_map = {'sfondo': 0, 'tap': 1}, in insertion order.
label_map == <<[name |-> "sfondo", idx |-> 0], [name |-> "tap", idx |-> 1]>>

\* The files of one class directory, as paths <<root, class, k>>.
ClassFiles(fs, root, name) ==
    [k \in 1..Len(fs[root][name]) |-> <<root, name, k>>]

\* __init__: the files of each class in label_map order, with their label.
HandGestureDataset(fs, root) ==
    LET a == ClassFiles(fs, root, label_map[1].name)
        b == ClassFiles(fs, root, label_map[2].name)
    IN [data_files |-> a \o b,
        labels |-> [k \in 1..Len(a) |-> label_map[1].idx]
                   \o [k \in 1..Len(b) |-> label_map[2].idx]]

\* __len__
DatasetLen(ds) == Len(ds.data_files)

Indices(ds) == 0..(DatasetLen(ds) - 1)

\* json.load of the file at a path: NotJson stands for JSONDecodeError.
FileContent(fs, path) == fs[path[1]][path[2]][path[3]]

\* torch.zeros(NUM_FEATURES, WINDOW_SIZE)
Zeros == [shape |-> <<NUM_FEATURES, WINDOW_SIZE>>, data |-> <<"zeros">>]

\* np.array([velocity, acceleration, velocity_ratio]): three rows, one column
\* per record of the file.
FeatureArray(path, data) == [shape |-> <<NUM_FEATURES, data.frames>>, data |-> path]

\* The except branch returning the label of the file's own class.
CorruptJsonItemOwnLabel(ds, idx) == [features |-> Zeros, label |-> ds.labels[idx + 1]]

\* The return of the except branch for a file that is not valid JSON.
CorruptJsonItem(ds, idx) == [features |-> Zeros, label |-> 0]

\* A next index that stops at the last one instead of wrapping around.
NextIndexNoWrap(idx, n) == IF idx + 1 < n THEN idx + 1 ELSE idx

\* The index the wrong-shape branch passes to the recursive call.
NextIndex(idx, n) == (idx + 1) % n

\* An exception leaving __getitem__ instead of a returned pair.
Raised(e) == [raised |-> e]

IsRaised(item) == "raised" \in DOMAIN item

\* __getitem__ at a nesting depth: what the call gives (item) and the indices
\* with which __getitem__ was entered, this call first (calls).
RECURSIVE GetItemRec(_, _, _, _)
GetItemRec(fs, ds, idx, depth) ==
    IF depth > RecursionLimit
    THEN [item |-> Raised("RecursionError"), calls |-> <<>>]
    ELSE
    LET file_path == ds.data_files[idx + 1]
        data == FileContent(fs, file_path)
    IN IF data = NotJson
       THEN [item |-> CorruptJsonItem(ds, idx), calls |-> <<idx>>]
       ELSE LET features == FeatureArray(file_path, data)
            IN IF features.shape # <<NUM_FEATURES, WINDOW_SIZE>>
               THEN LET r == GetItemRec(fs, ds, NextIndex(idx, DatasetLen(ds)), depth + 1)
                    IN [item |-> r.item, calls |-> <<idx>> \o r.calls]
               ELSE [item |-> [features |-> features, label |-> ds.labels[idx + 1]],
                     calls |-> <<idx>>]

\* __getitem__(idx) as called by a DataLoader.
GetItem(fs, ds, idx) == GetItemRec(fs, ds, idx, 0).item

(***************************************************************************)
(* DataLoader.  The iterator holds the indices its sampler has not yet     *)
(* yielded.  With shuffle the sampler yields a random permutation, which   *)
(* is revealed here one batch at a time; the order inside a shuffled batch *)
(* is not observed by the training step and a batch is kept as a set.      *)
(***************************************************************************)
\* train_loader with the under-sized last batch kept.
train_loader_keep_last == [batch_size |-> BATCH_SIZE, shuffle |-> TRUE, drop_last |-> FALSE]

\* train_model.py line 126.
train_loader == [batch_size |-> BATCH_SIZE, shuffle |-> TRUE, drop_last |-> TRUE]

\* test_loader with the under-sized last batch dropped.
test_loader_drop_last == [batch_size |-> EVAL_BATCH_SIZE, shuffle |-> FALSE, drop_last |-> TRUE]

\* evaluate_model.py line 25 (drop_last defaults to False).
test_loader == [batch_size |-> EVAL_BATCH_SIZE, shuffle |-> FALSE, drop_last |-> FALSE]

Smallest(rem, k) == {i \in rem : Cardinality({j \in rem : j < i}) < k}

\* The batches the iterator may produce next; empty when it is exhausted.
LoaderBatches(loader, rem) ==
    IF rem = {} \/ (loader.drop_last /\ Cardinality(rem) < loader.batch_size)
    THEN {}
    ELSE LET k == IF Cardinality(rem) < loader.batch_size
                  THEN Cardinality(rem) ELSE loader.batch_size
         IN IF loader.shuffle
            THEN {S \in SUBSET rem : Cardinality(S) = k}
            ELSE {Smallest(rem, k)}

RECURSIVE SortedSeq(_)
SortedSeq(S) ==
    IF S = {} THEN <<>>
    ELSE LET m == CHOOSE x \in S : \A y \in S : x <= y
         IN <<m>> \o SortedSeq(S \ {m})

\* The items of a batch, fetched from the dataset.
Fetch(fs, ds, S) == [i \in S |-> GetItem(fs, ds, i)]

FetchRaises(items) == \E i \in DOMAIN items : IsRaised(items[i])

\* The index sets a batch may have requested when its fetch stops at the first
\* item that raises: the raising item and the items fetched before it.
RequestedUntilRaise(loader, items) ==
    LET bad == {i \in DOMAIN items : IsRaised(items[i])}
    IN IF loader.shuffle
       THEN {R \in SUBSET (DOMAIN items) : Cardinality(R \cap bad) = 1}
       ELSE {{i \in DOMAIN items : \A j \in bad : i <= j}}

(***************************************************************************)
(* The initial state: the process has just been started.  A training run   *)
(* never reads dataset/test or the old weights file, so they are fixed     *)
(* there; an evaluator run explores them.                                  *)
(***************************************************************************)
Init ==
    /\ program \in {"train", "evaluate"}
    /\ pc = (IF program = "train" THEN "t_load" ELSE "e_import")
    /\ outcome = "running"
    /\ error = "none"
    /\ dirs \in IF program = "train"
                THEN {[train |-> r, test |-> EmptyRoot] :
                        r \in Roots(Contents, MaxSfondo, MaxTap)}
                ELSE {[train |-> r, test |-> t] :
                        r \in ImportRoots,
                        t \in Roots(Contents, MaxTestSfondo, MaxTestTap)}
    /\ weights_file \in IF program = "train"
                        THEN {[kind |-> "absent"]}
                        ELSE {[kind |-> "absent"], [kind |-> "old"]}
    /\ mlmodel_file = FALSE
    /\ train_dataset = Unset
    /\ train_model = Unset
    /\ epoch = 0
    /\ train_iter = {}
    /\ train_batch = 0
    /\ batch_no = 0
    /\ req_count = <<>>
    /\ loss = Unset
    /\ log = <<>>
    /\ updates = 0
    /\ saves = 0
    /\ test_dataset = Unset
    /\ eval_model = Unset
    /\ test_iter = {}
    /\ test_batch = <<>>
    /\ test_req = <<>>
    /\ all_labels = <<>>
    /\ all_predictions = <<>>
    /\ metrics = Unset

trainVars == <<train_dataset, train_model, epoch, train_iter, train_batch,
               batch_no, req_count, loss, log, updates>>
evalVars == <<test_dataset, eval_model, test_iter, test_batch, test_req,
              all_labels, all_predictions, metrics>>
diskVars == <<dirs, weights_file, mlmodel_file, saves>>

\* exit(): SystemExit ends the process, also when raised during an import.
Exit == outcome' = "exited" /\ error' = "none" /\ pc' = pc

\* An unhandled exception ends the process.
Raise(e) == outcome' = "raised" /\ error' = e /\ pc' = pc

Goto(l) == outcome' = outcome /\ error' = error /\ pc' = l

(***************************************************************************)
(* evaluate_model.py line 9: the import executes train_model's top level.  *)
(***************************************************************************)
ImportTrainModule ==
    /\ outcome = "running" /\ pc = "e_import"
    /\ Goto("t_load")
    /\ UNCHANGED <<program, trainVars, evalVars, diskVars>>

(***************************************************************************)
(* train_model.py top level                                                *)
(***************************************************************************)
\* Lines 118-123: build the training dataset, exit() when it is empty.
LoadTrainDataset ==
    /\ outcome = "running" /\ pc = "t_load"
    /\ train_dataset' = HandGestureDataset(dirs, "train")
    /\ IF DatasetLen(train_dataset') = 0 THEN Exit ELSE Goto("t_init")
    /\ UNCHANGED <<program, train_model, epoch, train_iter, train_batch, batch_no,
                   req_count, loss, log, updates, evalVars, diskVars>>

\* Lines 126-134: the loader, the model, the criterion and the optimizer.
InitTraining ==
    /\ outcome = "running" /\ pc = "t_init"
    /\ train_model' = [steps |-> 0, mode |-> "train"]
    /\ Goto("t_epoch")
    /\ UNCHANGED <<program, train_dataset, epoch, train_iter, train_batch, batch_no,
                   req_count, loss, log, updates, evalVars, diskVars>>

\* Lines 136-137: an iteration of the epoch loop starts and enumerate() opens a
\* new iterator of train_loader.
StartEpoch ==
    /\ outcome = "running" /\ pc = "t_epoch" /\ epoch < NUM_EPOCHS
    /\ train_iter' = Indices(train_dataset)
    /\ batch_no' = 0
    /\ req_count' = [i \in Indices(train_dataset) |-> 0]
    /\ Goto("t_batch")
    /\ UNCHANGED <<program, train_dataset, train_model, epoch, train_batch, loss,
                   log, updates, evalVars, diskVars>>

\* Lines 137-146: the loader produces the next batch, then forward pass, loss,
\* backward pass and optimizer.step().  An exception in __getitem__ is fatal.
TrainBatch ==
    /\ outcome = "running" /\ pc = "t_batch"
    /\ \E S \in LoaderBatches(train_loader, train_iter) :
        LET items == Fetch(dirs, train_dataset, S)
        IN /\ train_iter' = train_iter \ S
           /\ IF FetchRaises(items)
              THEN /\ \E R \in RequestedUntilRaise(train_loader, items) :
                        req_count' = [i \in DOMAIN req_count |->
                            IF i \in R THEN req_count[i] + 1 ELSE req_count[i]]
                   /\ Raise("RecursionError")
                   /\ UNCHANGED <<train_batch, batch_no, loss, updates, train_model>>
              ELSE /\ req_count' = [i \in DOMAIN req_count |->
                            IF i \in S THEN req_count[i] + 1 ELSE req_count[i]]
                   /\ train_batch' = Cardinality(DOMAIN items)
                   /\ batch_no' = batch_no + 1
                   /\ loss' = [epoch |-> epoch + 1, batch |-> batch_no + 1]
                   /\ train_model' = [train_model EXCEPT !.steps = @ + 1]
                   /\ updates' = updates + 1
                   /\ Goto("t_batch")
    /\ UNCHANGED <<program, train_dataset, epoch, log, evalVars, diskVars>>

\* Line 149: the loader is exhausted; print the epoch and loss.item().  The
\* name loss is bound only by line 141.
LogEpoch ==
    /\ outcome = "running" /\ pc = "t_batch"
    /\ LoaderBatches(train_loader, train_iter) = {}
    /\ IF loss = Unset
       THEN Raise("NameError") /\ UNCHANGED <<log, epoch>>
       ELSE /\ log' = Append(log, [epoch |-> epoch + 1, loss |-> loss])
            /\ epoch' = epoch + 1
            /\ Goto("t_epoch")
    /\ UNCHANGED <<program, train_dataset, train_model, train_iter, train_batch,
                   batch_no, req_count, loss, updates, evalVars, diskVars>>

\* A save placed inside the epoch loop.
SaveWeightsEachEpoch ==
    /\ outcome = "running" /\ pc = "t_epoch" /\ epoch >= 1 /\ saves < epoch
    /\ weights_file' = [kind |-> "trained", steps |-> train_model.steps]
    /\ saves' = saves + 1
    /\ Goto(IF epoch = NUM_EPOCHS THEN "t_convert" ELSE "t_epoch")
    /\ UNCHANGED <<program, trainVars, evalVars, dirs, mlmodel_file>>

\* Lines 151-155: after the last epoch, torch.save(model.state_dict(), ...).
SaveWeights ==
    /\ outcome = "running" /\ pc = "t_epoch" /\ epoch = NUM_EPOCHS
    /\ weights_file' = [kind |-> "trained", steps |-> train_model.steps]
    /\ saves' = saves + 1
    /\ Goto("t_convert")
    /\ UNCHANGED <<program, trainVars, evalVars, dirs, mlmodel_file>>

\* Lines 157-189: model.eval(), trace, convert and save the Core ML model.
\* An importing process goes on with the statement after its import.
ConvertCoreML ==
    /\ outcome = "running" /\ pc = "t_convert"
    /\ train_model' = [train_model EXCEPT !.mode = "eval"]
    /\ mlmodel_file' = TRUE
    /\ IF program = "train"
       THEN outcome' = "finished" /\ error' = error /\ pc' = "t_end"
       ELSE Goto("e_load")
    /\ UNCHANGED <<program, train_dataset, epoch, train_iter, train_batch, batch_no,
                   req_count, loss, log, updates, evalVars, dirs, weights_file, saves>>

(***************************************************************************)
(* evaluate_model.py top level, after the import                           *)
(***************************************************************************)
\* Lines 20-24: build the held-out dataset, exit() when it is empty.
LoadTestDataset ==
    /\ outcome = "running" /\ pc = "e_load"
    /\ test_dataset' = HandGestureDataset(dirs, "test")
    /\ IF DatasetLen(test_dataset') = 0 THEN Exit ELSE Goto("e_init")
    /\ UNCHANGED <<program, trainVars, eval_model, test_iter, test_batch, test_req,
                   all_labels, all_predictions, metrics, diskVars>>

\* Lines 25-37: the loader, a fresh model, load_state_dict(torch.load(...)),
\* model.eval(), and the iterator the for statement opens on test_loader.
InitEvaluation ==
    /\ outcome = "running" /\ pc = "e_init"
    /\ IF weights_file.kind = "absent"
       THEN Raise("FileNotFoundError") /\ UNCHANGED <<eval_model, test_iter>>
       ELSE /\ eval_model' = [params |-> weights_file, mode |-> "eval"]
            /\ test_iter' = Indices(test_dataset)
            /\ Goto("e_batch")
    /\ UNCHANGED <<program, trainVars, test_dataset, test_batch, test_req,
                   all_labels, all_predictions, metrics, diskVars>>

\* The class indices torch.max(outputs, 1) can give.
Classes == 0..(NUM_CLASSES - 1)

\* Lines 38-44: the next batch, the model's predictions for it, and the two
\* extend calls.
EvalBatch ==
    /\ outcome = "running" /\ pc = "e_batch"
    /\ \E S \in LoaderBatches(test_loader, test_iter) :
        LET items == Fetch(dirs, test_dataset, S)
            order == SortedSeq(S)
        IN /\ test_iter' = test_iter \ S
           /\ IF FetchRaises(items)
              THEN /\ \E R \in RequestedUntilRaise(test_loader, items) :
                        test_req' = test_req \o SortedSeq(R)
                   /\ Raise("RecursionError")
                   /\ UNCHANGED <<test_batch, all_labels, all_predictions>>
              ELSE /\ test_req' = test_req \o order
                   /\ test_batch' = items
                   /\ \E predicted \in [S -> Classes] :
                        /\ all_labels' = all_labels \o
                              [k \in 1..Len(order) |-> items[order[k]].label]
                        /\ all_predictions' = all_predictions \o
                              [k \in 1..Len(order) |-> predicted[order[k]]]
                   /\ Goto("e_batch")
    /\ UNCHANGED <<program, trainVars, test_dataset, eval_model, metrics, diskVars>>

class_names == <<"sfondo", "tap">>

\* [class_names[i] for i in ...]
Named(seq) == [k \in 1..Len(seq) |-> class_names[seq[k] + 1]]

\* sklearn's accuracy_score: the matches counted pair by pair, over the number
\* of pairs, kept as an exact fraction.
RECURSIVE CountEqual(_, _)
CountEqual(a, b) ==
    IF a = <<>> \/ b = <<>> THEN 0
    ELSE (IF Head(a) = Head(b) THEN 1 ELSE 0) + CountEqual(Tail(a), Tail(b))

accuracy_score(y_true, y_pred) == [num |-> CountEqual(y_true, y_pred), den |-> Len(y_true)]

\* sklearn's confusion_matrix with labels: cell [r][c] counts the pairs whose true
\* name is labels[r] and whose predicted name is labels[c].
RECURSIVE CountPairs(_, _, _, _)
CountPairs(y_true, y_pred, t, p) ==
    IF y_true = <<>> \/ y_pred = <<>> THEN 0
    ELSE (IF Head(y_true) = t /\ Head(y_pred) = p THEN 1 ELSE 0)
         + CountPairs(Tail(y_true), Tail(y_pred), t, p)

confusion_matrix(y_true, y_pred, labels) ==
    [r \in 1..Len(labels) |->
        [c \in 1..Len(labels) |-> CountPairs(y_true, y_pred, labels[r], labels[c])]]

\* The metrics with the two arguments of confusion_matrix exchanged.
MetricsSwapped(labels, predictions) ==
    [accuracy |-> accuracy_score(labels, predictions),
     cm |-> confusion_matrix(Named(predictions), Named(labels), class_names)]

\* Lines 46-62: the metrics of the recorded labels and predictions.
Metrics(labels, predictions) ==
    [accuracy |-> accuracy_score(labels, predictions),
     cm |-> confusion_matrix(Named(labels), Named(predictions), class_names)]

\* Lines 46-67: the loader is exhausted; compute and print the report.
ComputeMetrics ==
    /\ outcome = "running" /\ pc = "e_batch"
    /\ LoaderBatches(test_loader, test_iter) = {}
    /\ metrics' = Metrics(all_labels, all_predictions)
    /\ outcome' = "finished" /\ error' = error /\ pc' = "e_end"
    /\ UNCHANGED <<program, trainVars, test_dataset, eval_model, test_iter, test_batch,
                   test_req, all_labels, all_predictions, diskVars>>

Next ==
    \/ ImportTrainModule
    \/ LoadTrainDataset
    \/ InitTraining
    \/ StartEpoch
    \/ TrainBatch
    \/ LogEpoch
    \/ SaveWeights
    \/ ConvertCoreML
    \/ LoadTestDataset
    \/ InitEvaluation
    \/ EvalBatch
    \/ ComputeMetrics

Spec == Init /\ [][Next]_vars

(***************************************************************************)
(* Properties                                                              *)
(***************************************************************************)
LoadedDatasets == {ds \in {train_dataset, test_dataset} : ds # Unset}

\* The file at index i parses as JSON but has not WINDOW_SIZE records.
WrongShape(ds, i) ==
    LET d == FileContent(dirs, ds.data_files[i + 1])
    IN d.valid /\ d.frames # WINDOW_SIZE

RightShape(ds, i) ==
    LET d == FileContent(dirs, ds.data_files[i + 1])
    IN d.valid /\ d.frames = WINDOW_SIZE

InvalidJson(ds, i) == ~FileContent(dirs, ds.data_files[i + 1]).valid

TestSize == Len(dirs.test.sfondo) + Len(dirs.test.tap)

\* C1: a corrupt sample never aborts the run: no __getitem__ call ends in an
\* exception, whatever mix of valid, malformed and wrong-shape files the
\* dataset holds.
C1_CorruptSampleNeverAborts == error # "RecursionError"

\* C2: for a file at index i that parses but has the wrong shape,
\* __getitem__(i) has exactly the outcome of __getitem__((i+1) mod size):
\* it enters __getitem__ once more with that index and gives that entry's
\* features and label, index size-1 falling through to index 0.
C2_WrongShapeFallsThrough ==
    /\ \A ds \in LoadedDatasets : \A i \in Indices(ds) :
        WrongShape(ds, i) =>
          LET n == DatasetLen(ds)
              j == (i + 1) % n
              mine == GetItemRec(dirs, ds, i, 0)
              next == GetItemRec(dirs, ds, j, 0)
          IN /\ mine.item = next.item
             /\ ~IsRaised(mine.item) => mine.calls = <<i>> \o next.calls
             /\ RightShape(ds, j) =>
                  mine.item = [features |-> [shape |-> <<NUM_FEATURES, WINDOW_SIZE>>,
                                             data |-> ds.data_files[j + 1]],
                               label |-> ds.labels[j + 1]]
    /\ \A i \in DOMAIN test_batch :
        WrongShape(test_dataset, i) =>
          test_batch[i] = GetItem(dirs, test_dataset, (i + 1) % DatasetLen(test_dataset))

\* C2 witness: the evaluation loop fetched the last index, whose file has the
\* wrong shape, and got the features and label of the valid file at index 0.
C2_Witness ==
    /\ test_dataset # Unset
    /\ LET last == DatasetLen(test_dataset) - 1
       IN /\ last >= 1
          /\ last \in DOMAIN test_batch
          /\ WrongShape(test_dataset, last)
          /\ RightShape(test_dataset, 0)
          /\ test_batch[last].features.data = test_dataset.data_files[1]
          /\ test_batch[last].label = test_dataset.labels[1]
          /\ test_dataset.labels[last + 1] # test_dataset.labels[1]

\* C3: for a file at index i that is not valid JSON, __getitem__(i) returns
\* an all-zero (3, WINDOW_SIZE) matrix with label 0, whatever the class of the
\* file, and enters __getitem__ for no other index.
C3_InvalidJsonGivesZeros ==
    /\ \A ds \in LoadedDatasets : \A i \in Indices(ds) :
        InvalidJson(ds, i) =>
          LET mine == GetItemRec(dirs, ds, i, 0)
          IN /\ mine.item = [features |-> [shape |-> <<NUM_FEATURES, WINDOW_SIZE>>,
                                            data |-> <<"zeros">>],
                              label |-> 0]
             /\ mine.calls = <<i>>
    /\ \A i \in DOMAIN test_batch :
        InvalidJson(test_dataset, i) =>
          test_batch[i] = [features |-> Zeros, label |-> 0]

\* C3 witness: the evaluation loop fetched a file of class tap that is not
\* valid JSON, followed by a valid file, and got zeros with label 0.
C3_Witness ==
    /\ test_dataset # Unset
    /\ \E i \in DOMAIN test_batch :
        /\ InvalidJson(test_dataset, i)
        /\ test_dataset.labels[i + 1] = 1
        /\ i + 1 < DatasetLen(test_dataset)
        /\ RightShape(test_dataset, i + 1)
        /\ test_batch[i].features.data = <<"zeros">>
        /\ test_batch[i].label = 0

\* C4: an evaluator that finds its held-out dataset empty exits before any work:
\* no training dataset loaded, no model built, no update step, no weights
\* file read or written, no metric.
C4_EmptyTestExitsBeforeAnyWork ==
    (program = "evaluate" /\ TestSize = 0 /\ test_dataset # Unset
        /\ outcome = "exited")
    => /\ train_dataset = Unset
       /\ train_model = Unset
       /\ eval_model = Unset
       /\ updates = 0
       /\ saves = 0
       /\ weights_file.kind # "trained"
       /\ metrics = Unset

\* The recorded samples and the cells of the confusion matrix.
Recorded == 1..Len(all_labels)

RowSum(cm, r) == cm[r][1] + cm[r][2]

ColSum(cm, c) == cm[1][c] + cm[2][c]

\* C5: accuracy is (recorded samples with predicted = true label) / n; row
\* r of the confusion matrix sums to the samples of true class r, column c to
\* the samples predicted c, all cells to n; rows and columns are ordered
\* [sfondo, tap]; true [0,1,1,0] with predicted [0,1,0,0] gives 3/4 and
\* [[2,0],[1,1]].
C5_MetricsCountRecordedPairs ==
    metrics # Unset =>
      LET n == DatasetLen(test_dataset)
          cm == metrics.cm
      IN /\ n >= 1
         /\ metrics.accuracy.den = n
         /\ metrics.accuracy.num =
              Cardinality({k \in Recorded : all_labels[k] = all_predictions[k]})
         /\ \A r \in 1..NUM_CLASSES :
              RowSum(cm, r) = Cardinality({k \in Recorded : all_labels[k] = r - 1})
         /\ \A c \in 1..NUM_CLASSES :
              ColSum(cm, c) = Cardinality({k \in Recorded : all_predictions[k] = c - 1})
         /\ RowSum(cm, 1) + RowSum(cm, 2) = n
         /\ \A r, c \in 1..NUM_CLASSES :
              cm[r][c] = Cardinality({k \in Recorded :
                            all_labels[k] = r - 1 /\ all_predictions[k] = c - 1})
         /\ (all_labels = <<0, 1, 1, 0>> /\ all_predictions = <<0, 1, 0, 0>>)
              => /\ metrics.accuracy.num * 4 = 3 * metrics.accuracy.den
                 /\ cm = <<(<<2, 0>>), (<<1, 1>>)>>

\* C5 witness: the report for true labels [0,1,1,0] and predictions [0,1,0,0].
C5_Witness ==
    /\ metrics # Unset
    /\ all_labels = <<0, 1, 1, 0>>
    /\ all_predictions = <<0, 1, 0, 0>>

\* C6: the evaluation pass requests the indices 0, 1, 2, ... from the
\* held-out dataset in ascending order, each once, and when the report is
\* computed all n indices were requested, the final under-sized batch
\* included, and n (true label, predicted label) pairs are recorded.
C6_EverySampleScoredOnce ==
    /\ \A k \in 1..Len(test_req) : test_req[k] = k - 1
    /\ Len(all_labels) = Len(all_predictions)
    /\ Len(all_labels) <= Len(test_req)
    /\ metrics # Unset =>
         /\ Len(test_req) = DatasetLen(test_dataset)
         /\ Len(all_labels) = DatasetLen(test_dataset)

\* C6 witness: a finished pass over a dataset whose size is not a multiple
\* of the batch size and needs more than one batch.
C6_Witness ==
    /\ metrics # Unset
    /\ DatasetLen(test_dataset) > EVAL_BATCH_SIZE
    /\ DatasetLen(test_dataset) % EVAL_BATCH_SIZE # 0
    /\ Len(all_labels) = DatasetLen(test_dataset)

\* The epoch loop has exhausted the batches of an epoch.
EpochExhausted == (epoch >= 1 /\ pc # "t_batch") \/ error = "NameError"

TrainSize == Len(dirs.train.sfondo) + Len(dirs.train.tap)

\* C7: in a training epoch over n samples with batch size B, every batch
\* holds exactly B indices, no index is requested twice, and at the end of
\* the epoch floor(n/B) batches were produced and n mod B indices left out
\* (2 sfondo + 3 tap files: size 5 and, with B = 2, 2 batches, 4 samples).
C7_FullBatchesOnly ==
    train_dataset # Unset =>
      LET n == DatasetLen(train_dataset)
      IN /\ n = TrainSize
         /\ batch_no >= 1 => train_batch = BATCH_SIZE
         /\ \A i \in DOMAIN req_count : req_count[i] <= 1
         /\ (outcome # "raised" /\ DOMAIN req_count # {}) =>
              Cardinality({i \in DOMAIN req_count : req_count[i] = 1})
                = batch_no * BATCH_SIZE
         /\ EpochExhausted =>
              /\ batch_no = n \div BATCH_SIZE
              /\ Cardinality({i \in Indices(train_dataset) : req_count[i] = 0})
                   = n % BATCH_SIZE
         /\ (EpochExhausted /\ BATCH_SIZE = 2 /\ Len(dirs.train.sfondo) = 2
                /\ Len(dirs.train.tap) = 3) =>
              /\ n = 5
              /\ batch_no = 2
              /\ Cardinality({i \in Indices(train_dataset) : req_count[i] = 1}) = 4

\* C7 witness: the end of the second epoch over 2 sfondo + 3 tap files.
C7_Witness ==
    /\ program = "train"
    /\ Len(dirs.train.sfondo) = 2 /\ Len(dirs.train.tap) = 3
    /\ epoch = 2 /\ pc = "t_epoch"
    /\ batch_no = 2
    /\ Cardinality({i \in DOMAIN req_count : req_count[i] = 0}) = 1

\* C8: for every training dataset of size >= 1, also below the batch size,
\* each epoch ends with the log of the loss of its own final batch; the
\* per-epoch log statement never fails.
C8_EveryEpochLogsItsLoss ==
    /\ error # "NameError"
    /\ \A k \in DOMAIN log : log[k].epoch = k /\ log[k].loss.epoch = k

TrainingPcs == {"t_load", "t_init", "t_epoch", "t_batch"}

\* C9: the weights file is written at most once, only after all NUM_EPOCHS
\* epochs were logged; no update step follows the write (the written
\* parameters carry every update made); a run that ends in initialisation or
\* in an epoch has not written the file.
C9_WeightsPersistedOnceAtTheEnd ==
    /\ saves <= 1
    /\ saves = 1 =>
         /\ epoch = NUM_EPOCHS
         /\ Len(log) = NUM_EPOCHS
         /\ weights_file = [kind |-> "trained", steps |-> updates]
         /\ train_model.steps = updates
         /\ pc \notin TrainingPcs
    /\ saves = 0 => weights_file.kind # "trained"
    /\ (outcome \in {"exited", "raised"} /\ pc \in TrainingPcs) => saves = 0
    /\ (outcome = "finished" /\ program = "train") => saves = 1

\* C9 witness: a finished training run that made updates and saved them.
C9_Witness ==
    /\ program = "train" /\ outcome = "finished"
    /\ saves = 1 /\ updates >= NUM_EPOCHS
    /\ weights_file.kind = "trained"

\* C10: an evaluator run that prints its report made no update step and
\* wrote no weights file: it scored the parameters that were on disk when it
\* was started.
C10_EvaluatorLeavesTrainingUntouched ==
    (program = "evaluate" /\ metrics # Unset)
    => /\ updates = 0
       /\ saves = 0
       /\ eval_model.params = [kind |-> "old"]

====
